---- MODULE Spec2Model ----
(***************************************************************************)
(* Model of the two CBOM validators:                                       *)
(*   tools/validate_cbom.py          summary/findings consistency checker  *)
(*   tools/validate_cdx16_schema.py  CycloneDX 1.6 conformance checker     *)
(*                                                                         *)
(* JSON values are tagged records [t, v].  Python strings are sequences of *)
(* one-character strings, so that upper(), startswith() and int() are      *)
(* computed character by character.  A JSON object read through a fixed    *)
(* set of keys is a record whose missing keys hold Absent ("obj"); a JSON  *)
(* object whose key order matters (Python dict order) is a sequence of     *)
(* <<key, value>> pairs ("dict").  An operator that can raise returns a    *)
(* record with a raised field.                                             *)
(***************************************************************************)
EXTENDS Integers, Sequences, FiniteSets, TLC

VARIABLES tool, strict, nfiles, idx, all_ok, doc, result, out, pc, exit_code

vars == <<tool, strict, nfiles, idx, all_ok, doc, result, out, pc, exit_code>>

(* ------------------------------ bounds -------------------------------- *)

\* longest findings array
MaxFindings == 2

\* longest components array
MaxComponents == 2

\* longest properties array of a component
MaxProps == 2

\* most files on a command line
MaxFiles == 2

(* ---------------------------- JSON values ----------------------------- *)

Absent == [t |-> "absent", v |-> 0]
JNull == [t |-> "null", v |-> 0]
JBool(b) == [t |-> "bool", v |-> b]
JInt(n) == [t |-> "int", v |-> n]
JStr(s) == [t |-> "str", v |-> s]
JList(xs) == [t |-> "list", v |-> xs]
JObj(r) == [t |-> "obj", v |-> r]
JDict(ps) == [t |-> "dict", v |-> ps]

\* isinstance(x, list)
IsList(x) == x.t = "list"

\* isinstance(x, dict): the value has a .get method
IsDict(x) == x.t \in {"obj", "dict"}

\* number of keys of a JSON object
DictSize(x) ==
  IF x.t = "dict" THEN Len(x.v)
  ELSE Cardinality({k \in DOMAIN x.v : x.v[k] # Absent})

\* Python truthiness: bool(x), `x or default`, `if x:`, `not x`
Truthy(x) ==
  CASE x.t = "absent" -> FALSE
    [] x.t = "null" -> FALSE
    [] x.t = "bool" -> x.v
    [] x.t = "int" -> x.v # 0
    [] x.t = "str" -> Len(x.v) > 0
    [] x.t = "list" -> Len(x.v) > 0
    [] x.t \in {"obj", "dict"} -> DictSize(x) > 0

\* `x or default`
OrElse(x, default) == IF Truthy(x) THEN x ELSE default

\* o.get(key) on a record-shaped object; Absent stands for a missing key
ObjGet(o, key) == o.v[key]

\* o.get(key, default) on a record-shaped object
ObjGetDefault(o, key, default) == IF o.v[key] = Absent THEN default ELSE o.v[key]

SeqsUpTo(S, n) == UNION {[1..k -> S] : k \in 0..n}

(* ------------------------------ strings ------------------------------- *)

s_UNKNOWN == <<"U","N","K","N","O","W","N">>
s_unknown == <<"u","n","k","n","o","w","n">>
s_CRITICAL == <<"C","R","I","T","I","C","A","L">>
s_HIGH == <<"H","I","G","H">>
s_high == <<"h","i","g","h">>
s_MEDIUM == <<"M","E","D","I","U","M">>
s_Medium == <<"M","e","d","i","u","m">>
s_LOW == <<"L","O","W">>
s_RSA == <<"R","S","A">>
s_no == <<"n","o">>

\* str.upper(), one character
UpperChar(c) ==
  CASE c = "a" -> "A" [] c = "b" -> "B" [] c = "c" -> "C" [] c = "d" -> "D"
    [] c = "e" -> "E" [] c = "f" -> "F" [] c = "g" -> "G" [] c = "h" -> "H"
    [] c = "i" -> "I" [] c = "j" -> "J" [] c = "k" -> "K" [] c = "l" -> "L"
    [] c = "m" -> "M" [] c = "n" -> "N" [] c = "o" -> "O" [] c = "p" -> "P"
    [] c = "q" -> "Q" [] c = "r" -> "R" [] c = "s" -> "S" [] c = "t" -> "T"
    [] c = "u" -> "U" [] c = "v" -> "V" [] c = "w" -> "W" [] c = "x" -> "X"
    [] c = "y" -> "Y" [] c = "z" -> "Z" [] OTHER -> c

\* str.upper()
Upper(s) == [i \in 1..Len(s) |-> UpperChar(s[i])]

DigitChar(d) ==
  CASE d = 0 -> "0" [] d = 1 -> "1" [] d = 2 -> "2" [] d = 3 -> "3" [] d = 4 -> "4"
    [] d = 5 -> "5" [] d = 6 -> "6" [] d = 7 -> "7" [] d = 8 -> "8" [] d = 9 -> "9"

RECURSIVE NatStr(_)
NatStr(n) == IF n < 10 THEN <<DigitChar(n)>> ELSE NatStr(n \div 10) \o <<DigitChar(n % 10)>>

\* str(x) of a scalar JSON value
PyStr(x) ==
  CASE x.t = "str" -> x.v
    [] x.t = "null" -> <<"N","o","n","e">>
    [] x.t = "bool" -> IF x.v THEN <<"T","r","u","e">> ELSE <<"F","a","l","s","e">>
    [] x.t = "int" -> IF x.v < 0 THEN <<"-">> \o NatStr(0 - x.v) ELSE NatStr(x.v)

(* ------------------- validate_cbom.py: count_findings ----------------- *)

VULN_SEVERITIES == {s_CRITICAL, s_HIGH, s_MEDIUM}

\* d.get(key, 0) on an insertion-ordered dict of counts
CountGet(d, key) ==
  IF \E i \in 1..Len(d) : d[i][1] = key
  THEN d[CHOOSE i \in 1..Len(d) : d[i][1] = key][2]
  ELSE 0

\* d[key] = d.get(key, 0) + 1: an existing key keeps its place, a new key goes last
CountInc(d, key) ==
  IF \E i \in 1..Len(d) : d[i][1] = key
  THEN [i \in 1..Len(d) |-> IF d[i][1] = key THEN <<key, d[i][2] + 1>> ELSE d[i]]
  ELSE Append(d, <<key, 1>>)

\* `risk in VULN_SEVERITIES and not quantum_resistant`, ignoring the flag
IsVulnerable_NoQR(risk, quantum_resistant) == risk \in VULN_SEVERITIES

\* `risk in VULN_SEVERITIES and not quantum_resistant`
IsVulnerable(risk, quantum_resistant) ==
  risk \in VULN_SEVERITIES /\ ~quantum_resistant

\* one iteration of the loop over findings
CountStep(acc, finding) ==
  IF acc.raised THEN acc
  ELSE IF ~IsDict(finding) THEN [acc EXCEPT !.raised = TRUE]
  ELSE
    LET risk == Upper(PyStr(ObjGetDefault(finding, "risk", JStr(s_UNKNOWN))))
        algo == PyStr(ObjGetDefault(finding, "algorithm", JStr(s_unknown)))
        quantum_resistant == Truthy(ObjGetDefault(finding, "quantum_resistant", JBool(FALSE)))
    IN [raised |-> FALSE,
        risk_counts |-> CountInc(acc.risk_counts, risk),
        algo_counts |-> CountInc(acc.algo_counts, algo),
        vuln_assets |-> acc.vuln_assets + (IF IsVulnerable(risk, quantum_resistant) THEN 1 ELSE 0),
        quantum_safe |-> acc.quantum_safe + (IF quantum_resistant THEN 1 ELSE 0)]

RECURSIVE CountLoop(_, _, _)
CountLoop(findings, i, acc) ==
  IF i > Len(findings) THEN acc
  ELSE CountLoop(findings, i + 1, CountStep(acc, findings[i]))

\* count_findings(findings): findings is the sequence of array entries
count_findings(findings) ==
  CountLoop(findings, 1,
            [raised |-> FALSE, risk_counts |-> <<>>, algo_counts |-> <<>>,
             vuln_assets |-> 0, quantum_safe |-> 0])

(* ------------------------- inputs: findings --------------------------- *)

RiskVals == {Absent, JNull, JStr(s_CRITICAL), JStr(s_high), JStr(s_Medium), JStr(s_LOW)}
AlgoVals == {Absent, JStr(s_RSA)}
QRVals == {Absent, JBool(TRUE), JBool(FALSE), JStr(s_no)}

Finding(r, a, q) == JObj([risk |-> r, algorithm |-> a, quantum_resistant |-> q])

FindingMappings == {Finding(r, a, q) : r \in RiskVals, a \in AlgoVals, q \in QRVals}

\* array entries: Finding mappings and one entry that is not a mapping
FindingEntries == FindingMappings \cup {JInt(1)}

NoResult == [raised |-> FALSE]

MainIdle ==
  /\ tool = "none" /\ strict = FALSE /\ nfiles = 0 /\ idx = 0
  /\ all_ok = TRUE /\ out = <<>> /\ exit_code = -1

(* ------------------ specification: count_findings --------------------- *)

InitCount ==
  /\ \E f \in SeqsUpTo(FindingEntries, MaxFindings) : doc = JList(f)
  /\ result = NoResult
  /\ pc = "call"
  /\ MainIdle

CallCountFindings ==
  /\ pc = "call"
  /\ result' = count_findings(doc.v)
  /\ pc' = "returned"
  /\ UNCHANGED <<tool, strict, nfiles, idx, all_ok, doc, out, exit_code>>

NextCount == CallCountFindings

SpecCount == InitCount /\ [][NextCount]_vars

(* ------------------------------ claim C1 ------------------------------ *)

AllMappings(findings) == \A i \in 1..Len(findings) : IsDict(findings[i])

RiskLabel(f) == Upper(PyStr(IF f.v.risk = Absent THEN JStr(s_UNKNOWN) ELSE f.v.risk))

\* C1: for a findings array of mappings, count_findings returns vulnerable_count =
\* the number of entries whose uppercased risk (default UNKNOWN) is CRITICAL, HIGH
\* or MEDIUM and whose quantum_resistant is falsy, and quantum_safe_count = the
\* number of entries whose quantum_resistant is truthy, whatever their risk.
C1_Counts ==
  (pc = "returned" /\ AllMappings(doc.v)) =>
    /\ ~result.raised
    /\ result.vuln_assets =
         Cardinality({i \in 1..Len(doc.v) :
            /\ RiskLabel(doc.v[i]) \in {s_CRITICAL, s_HIGH, s_MEDIUM}
            /\ ~Truthy(doc.v[i].v.quantum_resistant)})
    /\ result.quantum_safe =
         Cardinality({i \in 1..Len(doc.v) : Truthy(doc.v[i].v.quantum_resistant)})

\* the example of C1: one CRITICAL, quantum-resistant finding
C1_Witness ==
  /\ pc = "returned"
  /\ doc.v = <<Finding(JStr(s_CRITICAL), Absent, JBool(TRUE))>>
  /\ result.vuln_assets = 0
  /\ result.quantum_safe = 1

(* ------------------ validate_cbom.py: compare_summary ----------------- *)

s_quantum_safe_assets ==
  <<"q","u","a","n","t","u","m","_","s","a","f","e","_","a","s","s","e","t","s">>
s_vulnerable_assets ==
  <<"v","u","l","n","e","r","a","b","l","e","_","a","s","s","e","t","s">>

KeyChars(key) ==
  CASE key = "quantum_safe_assets" -> s_quantum_safe_assets
    [] key = "vulnerable_assets" -> s_vulnerable_assets

IsSubstring(sub, s) ==
  \E k \in 0..(Len(s) - Len(sub)) : SubSeq(s, k + 1, k + Len(sub)) = sub

DigitChars == {"0", "1", "2", "3", "4", "5", "6", "7", "8", "9"}

DigitVal(c) == CHOOSE d \in 0..9 : DigitChar(d) = c

RECURSIVE ParseNat(_)
ParseNat(s) ==
  IF Len(s) = 1 THEN DigitVal(s[1])
  ELSE 10 * ParseNat(SubSeq(s, 1, Len(s) - 1)) + DigitVal(s[Len(s)])

IsDigits(s) == Len(s) > 0 /\ \A i \in 1..Len(s) : s[i] \in DigitChars

\* int(x): TypeError for None, a list or a dict; ValueError for a string that is
\* no integer literal
PyInt(x) ==
  CASE x.t = "int" -> [raised |-> FALSE, v |-> x.v]
    [] x.t = "bool" -> [raised |-> FALSE, v |-> IF x.v THEN 1 ELSE 0]
    [] x.t = "str" ->
         IF IsDigits(x.v) THEN [raised |-> FALSE, v |-> ParseNat(x.v)]
         ELSE IF Len(x.v) > 1 /\ x.v[1] = "-" /\ IsDigits(Tail(x.v))
              THEN [raised |-> FALSE, v |-> 0 - ParseNat(Tail(x.v))]
         ELSE [raised |-> TRUE, v |-> 0]
    [] OTHER -> [raised |-> TRUE, v |-> 0]

\* `key in summary`: a dict key, a substring of a string, an element of a list;
\* TypeError for a number or a boolean
KeyIn(key, summary) ==
  CASE summary.t = "obj" -> [raised |-> FALSE, v |-> summary.v[key] # Absent]
    [] summary.t = "dict" -> [raised |-> FALSE, v |-> FALSE]
    [] summary.t = "str" -> [raised |-> FALSE, v |-> IsSubstring(KeyChars(key), summary.v)]
    [] summary.t = "list" ->
         [raised |-> FALSE, v |-> \E i \in 1..Len(summary.v) : summary.v[i] = JStr(KeyChars(key))]
    [] OTHER -> [raised |-> TRUE, v |-> FALSE]

\* one message of the error list: the text's template and what it interpolates
Message(field, key, reported, computed) ==
  [field |-> field, key |-> key, reported |-> reported, computed |-> computed]

NotAnArray == Message("findings is not an array", <<>>, Absent, 0)

Raise(acc) == [acc EXCEPT !.raised = TRUE]

\* the block of a scalar key with its `if key in summary` test dropped
CompareScalar_NoOptIn(acc, summary, key, computed) ==
  IF acc.raised THEN acc
  ELSE LET reported == IF summary.t = "obj" /\ summary.v[key] # Absent
                       THEN summary.v[key] ELSE JInt(-1)
           n == PyInt(reported)
       IN IF n.raised THEN Raise(acc)
          ELSE IF n.v # computed
               THEN [acc EXCEPT !.ok = FALSE,
                                !.errors = Append(@, Message(key, <<>>, reported, computed))]
               ELSE acc

\* `if key in summary: if int(summary.get(key, -1)) != int(computed): ...`
CompareScalar(acc, summary, key, computed) ==
  IF acc.raised THEN acc
  ELSE LET present == KeyIn(key, summary)
       IN IF present.raised THEN Raise(acc)
          ELSE IF ~present.v THEN acc
          ELSE IF ~IsDict(summary) THEN Raise(acc)
          ELSE LET reported == ObjGet(summary, key)
                   n == PyInt(reported)
               IN IF n.raised THEN Raise(acc)
                  ELSE IF n.v # computed
                       THEN [acc EXCEPT !.ok = FALSE,
                                        !.errors = Append(@, Message(key, <<>>, reported, computed))]
                       ELSE acc

\* s_map.get(key) on an insertion-ordered dict: None for a missing key
DictLookup(s_map, key) ==
  IF \E i \in 1..Len(s_map.v) : s_map.v[i][1] = key
  THEN s_map.v[CHOOSE i \in 1..Len(s_map.v) : s_map.v[i][1] = key][2]
  ELSE JNull

\* one iteration of `for key, count in counts.items()`
BreakdownStep(acc, field, s_map, key, count) ==
  IF acc.raised THEN acc
  ELSE IF s_map.t # "dict" THEN Raise(acc)
  ELSE LET reported == DictLookup(s_map, key)
       IN IF reported = JNull THEN acc
          ELSE LET n == PyInt(reported)
               IN IF n.raised THEN Raise(acc)
                  ELSE IF n.v # count
                       THEN [acc EXCEPT !.ok = FALSE,
                                        !.errors = Append(@, Message(field, key, reported, count))]
                       ELSE acc

RECURSIVE BreakdownLoop(_, _, _, _, _)
BreakdownLoop(acc, field, s_map, counts, i) ==
  IF i > Len(counts) THEN acc
  ELSE BreakdownLoop(BreakdownStep(acc, field, s_map, counts[i][1], counts[i][2]),
                     field, s_map, counts, i + 1)

RECURSIVE SummaryOrderLoop(_, _, _, _, _)
SummaryOrderLoop(acc, field, s_map, counts, i) ==
  IF i > Len(s_map.v) THEN acc
  ELSE LET key == s_map.v[i][1]
       IN SummaryOrderLoop(
            IF \E j \in 1..Len(counts) : counts[j][1] = key
            THEN BreakdownStep(acc, field, s_map, key, CountGet(counts, key))
            ELSE acc,
            field, s_map, counts, i + 1)

\* the breakdown comparison walking the summary's sub-map instead of the counts
CompareBreakdown_SummaryOrder(acc, field, s_map, counts) ==
  IF s_map.t # "dict" THEN BreakdownLoop(acc, field, s_map, counts, 1)
  ELSE SummaryOrderLoop(acc, field, s_map, counts, 1)

\* `for key, count in counts.items(): if s_map.get(key) is not None and ...`
CompareBreakdown(acc, field, s_map, counts) ==
  BreakdownLoop(acc, field, s_map, counts, 1)

\* `(summary.get(name) or {}) if isinstance(summary, dict) else {}`
SubMap(summary, name) ==
  IF summary.t = "obj" THEN OrElse(ObjGet(summary, name), JDict(<<>>))
  ELSE JDict(<<>>)

\* compare_summary(doc): [raised, ok, errors]
compare_summary(d) ==
  IF ~IsDict(d) THEN [raised |-> TRUE, ok |-> FALSE, errors |-> <<>>]
  ELSE
    LET findings == OrElse(ObjGet(d, "findings"), JList(<<>>))
    IN IF ~IsList(findings)
       THEN [raised |-> FALSE, ok |-> FALSE, errors |-> <<NotAnArray>>]
       ELSE
         LET c == count_findings(findings.v)
             summary == OrElse(ObjGet(d, "summary"), JDict(<<>>))
             a0 == [raised |-> c.raised, ok |-> TRUE, errors |-> <<>>]
             a1 == CompareScalar(a0, summary, "quantum_safe_assets", c.quantum_safe)
             a2 == CompareScalar(a1, summary, "vulnerable_assets", c.vuln_assets)
             a3 == CompareBreakdown(a2, "risk_breakdown",
                                    SubMap(summary, "risk_breakdown"), c.risk_counts)
             a4 == CompareBreakdown(a3, "algorithm_breakdown",
                                    SubMap(summary, "algorithm_breakdown"), c.algo_counts)
         IN IF a4.raised THEN [raised |-> TRUE, ok |-> FALSE, errors |-> <<>>] ELSE a4

(* ---------------------- inputs: CBOM documents ------------------------- *)

Doc(f, s) == JObj([findings |-> f, summary |-> s])

Summary(q, v, rb, ab) ==
  JObj([quantum_safe_assets |-> q, vulnerable_assets |-> v,
        risk_breakdown |-> rb, algorithm_breakdown |-> ab])

\* summary: {}
EmptySummary == Summary(Absent, Absent, Absent, Absent)

Arrays(E) == {JList(f) : f \in SeqsUpTo(E, MaxFindings)}

\* values of findings that are not arrays: falsy ones and truthy ones
NonArrayFindings ==
  {JNull, JBool(FALSE), JBool(TRUE), JInt(0), JInt(1), JStr(<<>>), JStr(s_no),
   JDict(<<>>), JDict(<< <<s_RSA, JInt(1)>> >>)}

LightEntries ==
  {Finding(r, a, q) : r \in {Absent, JStr(s_high), JStr(s_LOW)},
                      a \in AlgoVals, q \in {Absent, JBool(TRUE)}}

QREntries ==
  {Finding(r, Absent, q) : r \in {Absent, JStr(s_high)}, q \in {Absent, JBool(TRUE)}}

RiskEntries == {Finding(r, Absent, Absent) : r \in {Absent, JStr(s_high), JStr(s_LOW)}}

AlgoEntries == {Finding(Absent, a, Absent) : a \in AlgoVals}

\* integer summary values around every count a findings array can give
CountVals == {JInt(n) : n \in (0 - 1)..(MaxFindings + 1)}

ScalarVals == {Absent, JNull, JBool(TRUE), JStr(<<"1">>), JStr(s_no)} \cup CountVals

\* insertion-ordered sub-maps with at most two distinct keys
SubMaps(K, V) ==
  {JDict(<<>>)}
    \cup {JDict(<< <<k, v>> >>) : k \in K, v \in V}
    \cup {JDict(<< <<k[1], v[1]>>, <<k[2], v[2]>> >>) :
            k \in {kk \in K \X K : kk[1] # kk[2]}, v \in V \X V}

ShapeSummaries ==
  {Absent, JNull, EmptySummary, JInt(0), JInt(1), JList(<<JInt(1)>>), JStr(s_no),
   JStr(s_vulnerable_assets),
   Summary(JInt(0), Absent, Absent, Absent), Summary(JInt(1), Absent, Absent, Absent),
   Summary(JNull, Absent, Absent, Absent), Summary(Absent, Absent, JStr(s_no), Absent)}

\* the families of documents compare_summary is applied to
IsShapeDoc(d) ==
  \E f \in {Absent} \cup NonArrayFindings \cup Arrays(LightEntries \cup {JInt(1)}),
     s \in ShapeSummaries : d = Doc(f, s)

IsScalarDoc(d) ==
  \E f \in Arrays(QREntries), q \in ScalarVals, v \in ScalarVals :
     d = Doc(f, Summary(q, v, Absent, Absent))

IsRiskDoc(d) ==
  \E f \in Arrays(RiskEntries),
     rb \in SubMaps({s_HIGH, s_LOW, s_UNKNOWN}, {JNull} \cup CountVals) :
     d = Doc(f, Summary(Absent, Absent, rb, Absent))

IsAlgoDoc(d) ==
  \E f \in Arrays(AlgoEntries),
     ab \in SubMaps({s_RSA, s_unknown}, {JNull, JInt(0), JInt(1)}) :
     d = Doc(f, Summary(Absent, Absent, Absent, ab))

\* summaries that report a wrong value under every key, in both key orders
IsOrderDoc(d) ==
  \E f \in Arrays(LightEntries),
     q \in {Absent, JInt(-1)}, v \in {Absent, JInt(-1)},
     rb \in {Absent, JDict(<< <<s_HIGH, JInt(-1)>>, <<s_UNKNOWN, JInt(-1)>> >>),
             JDict(<< <<s_UNKNOWN, JInt(-1)>>, <<s_HIGH, JInt(-1)>> >>)},
     ab \in {Absent, JDict(<< <<s_RSA, JInt(-1)>>, <<s_unknown, JInt(-1)>> >>),
             JDict(<< <<s_unknown, JInt(-1)>>, <<s_RSA, JInt(-1)>> >>)} :
     d = Doc(f, Summary(q, v, rb, ab))

\* valid JSON whose top level is no object
NonObjectDocs == {JList(<<>>), JInt(1)}

IsCompareDoc(d) ==
  \/ IsShapeDoc(d)
  \/ IsScalarDoc(d)
  \/ IsRiskDoc(d)
  \/ IsAlgoDoc(d)
  \/ IsOrderDoc(d)
  \/ d \in NonObjectDocs

(* ------------------ specification: compare_summary -------------------- *)

InitCompare ==
  /\ IsCompareDoc(doc)
  /\ result = NoResult
  /\ pc = "call"
  /\ MainIdle

CallCompareSummary ==
  /\ pc = "call"
  /\ result' = compare_summary(doc)
  /\ pc' = "returned"
  /\ UNCHANGED <<tool, strict, nfiles, idx, all_ok, doc, out, exit_code>>

NextCompare == CallCompareSummary

SpecCompare == InitCompare /\ [][NextCompare]_vars

(* ------------------- claims about compare_summary --------------------- *)

\* the call returned a pair (ok, errors) rather than raising
Returned == pc = "returned" /\ ~result.raised

\* the document is an object whose findings is an array of mappings
FindingsWellFormed ==
  IsDict(doc) /\ IsList(doc.v.findings) /\ AllMappings(doc.v.findings.v)

\* the number of findings whose uppercased risk (default UNKNOWN) is S
TrueRiskCount(S) ==
  Cardinality({i \in 1..Len(doc.v.findings.v) : RiskLabel(doc.v.findings.v[i]) = S})

MismatchesFor(field, key) ==
  {j \in 1..Len(result.errors) :
     result.errors[j].field = field /\ result.errors[j].key = key}

\* C2: for every key S that summary.risk_breakdown holds with an integer value v,
\* whether or not a finding has risk S, a risk_breakdown[S] mismatch is reported
\* (and ok is false) exactly when v differs from the number of findings of risk S.
C2_RiskBreakdownIff ==
  (Returned /\ FindingsWellFormed /\ doc.v.summary.t = "obj"
     /\ doc.v.summary.v.risk_breakdown.t = "dict") =>
    LET rb == doc.v.summary.v.risk_breakdown.v
    IN \A i \in 1..Len(rb) :
         rb[i][2].t = "int" =>
           /\ (MismatchesFor("risk_breakdown", rb[i][1]) # {})
                <=> (rb[i][2].v # TrueRiskCount(rb[i][1]))
           /\ (rb[i][2].v # TrueRiskCount(rb[i][1])) => ~result.ok

SummaryIsEmpty == IsDict(doc) /\ doc.v.summary = EmptySummary

\* C3 as stated: a document whose summary is {} passes with ok = true and no
\* errors, whatever its findings value is.
C3_EmptySummaryAlwaysPasses ==
  (pc = "returned" /\ SummaryIsEmpty) =>
    (result.raised \/ (result.ok /\ result.errors = <<>>))

\* the summary holds the key a message is about, with a non-null value in a sub-map
Claimed(e) ==
  /\ doc.v.summary.t = "obj"
  /\ e.field \in {"quantum_safe_assets", "vulnerable_assets",
                  "risk_breakdown", "algorithm_breakdown"}
  /\ doc.v.summary.v[e.field] # Absent
  /\ e.field \in {"risk_breakdown", "algorithm_breakdown"} =>
       /\ doc.v.summary.v[e.field].t = "dict"
       /\ \E i \in 1..Len(doc.v.summary.v[e.field].v) :
            /\ doc.v.summary.v[e.field].v[i][1] = e.key
            /\ doc.v.summary.v[e.field].v[i][2] # JNull

\* C3, amended: a key absent from summary (or from a breakdown sub-map) never
\* produces an error, and a document whose summary is {} and whose findings is
\* absent or an array of mappings passes with ok = true and no errors.
C3_OptInPerKey ==
  /\ (Returned /\ IsDict(doc) /\ (doc.v.findings = Absent \/ FindingsWellFormed)) =>
       \A j \in 1..Len(result.errors) : Claimed(result.errors[j])
  /\ (pc = "returned" /\ SummaryIsEmpty
        /\ (doc.v.findings = Absent \/ FindingsWellFormed)) =>
       (~result.raised /\ result.ok /\ result.errors = <<>>)

\* {"findings": [{"risk": "high"}], "summary": {}} passes
C3_Witness ==
  /\ Returned
  /\ doc = Doc(JList(<<Finding(JStr(s_high), Absent, Absent)>>), EmptySummary)
  /\ result.ok
  /\ result.errors = <<>>

\* C4: a findings value that is present and not an array gives ok = false with
\* the error list exactly ["findings is not an array"].
C4_NonArrayRejected ==
  (pc = "returned" /\ IsDict(doc) /\ doc.v.findings \notin {Absent, JNull}
     /\ ~IsList(doc.v.findings)) =>
    (result.raised \/ (~result.ok /\ result.errors = <<NotAnArray>>))

FieldRank(field) ==
  CASE field = "quantum_safe_assets" -> 1
    [] field = "vulnerable_assets" -> 2
    [] field = "risk_breakdown" -> 3
    [] field = "algorithm_breakdown" -> 4

AlgoLabel(f) == PyStr(IF f.v.algorithm = Absent THEN JStr(s_unknown) ELSE f.v.algorithm)

\* the index of the first finding that carries the key of a breakdown message
FirstSeen(e) ==
  LET F == doc.v.findings.v
      hits == {i \in 1..Len(F) :
                 IF e.field = "risk_breakdown" THEN RiskLabel(F[i]) = e.key
                 ELSE AlgoLabel(F[i]) = e.key}
  IN CHOOSE i \in hits : \A k \in hits : i <= k

\* C10: the error list is ordered quantum_safe_assets, vulnerable_assets,
\* risk_breakdown, algorithm_breakdown, and inside a breakdown by the position at
\* which each key is first seen in findings, whatever the key order of the
\* summary's sub-map.
C10_ErrorOrder ==
  (Returned /\ FindingsWellFormed) =>
    \A i, j \in 1..Len(result.errors) :
      i < j =>
        LET a == result.errors[i]
            b == result.errors[j]
        IN /\ FieldRank(a.field) <= FieldRank(b.field)
           /\ (a.field = b.field /\ FieldRank(a.field) >= 3) => FirstSeen(a) < FirstSeen(b)

\* both risk keys mismatch and the summary lists them in the opposite order
C10_Witness ==
  /\ Returned
  /\ FindingsWellFormed
  /\ Len(result.errors) = 6
  /\ doc.v.summary.v.risk_breakdown.v[1][1] = result.errors[4].key
  /\ doc.v.summary.v.algorithm_breakdown.v[1][1] = result.errors[6].key

(* ------------------------ validate_cdx16_schema.py -------------------- *)

s_CycloneDX == <<"C","y","c","l","o","n","e","D","X">>
s_SPDX == <<"S","P","D","X">>
s_1_6 == <<"1",".","6">>
s_1_5 == <<"1",".","5">>
s_cbom_prefix == <<"c","b","o","m",":">>
s_cbom_algorithm == <<"c","b","o","m",":","a","l","g","o","r","i","t","h","m">>
s_cbo == <<"c","b","o">>
s_other == <<"o","t","h","e","r">>
s_unnamed == <<"u","n","n","a","m","e","d">>
s_lib == <<"l","i","b">>
s_timestamp == <<"2","0","2","4","-","0","1","-","0","1">>
s_should == <<"s","h","o","u","l","d">>
s_warning == <<"w","a","r","n","i","n","g">>
s_Should == <<"S","h","o","u","l","d">>

\* str.startswith(prefix)
StartsWith(s, prefix) ==
  Len(s) >= Len(prefix) /\ SubSeq(s, 1, Len(prefix)) = prefix

\* one message: the text's template, the component index it names (-1: none)
\* and the string it interpolates
SMsg(text, i, detail) == [text |-> text, idx |-> i, detail |-> detail]

\* validate_spec_version(doc): [raised, ok, messages]
validate_spec_version(d) ==
  LET spec_version == ObjGet(d, "specVersion")
  IN IF ~Truthy(spec_version)
     THEN [raised |-> FALSE, ok |-> FALSE,
           messages |-> <<SMsg("Missing required field: specVersion", -1, <<>>)>>]
     ELSE IF spec_version # JStr(s_1_6)
     THEN [raised |-> FALSE, ok |-> FALSE,
           messages |-> <<SMsg("Expected specVersion '1.6', got", -1, PyStr(spec_version))>>]
     ELSE [raised |-> FALSE, ok |-> TRUE, messages |-> <<>>]

\* validate_bom_format(doc)
validate_bom_format(d) ==
  LET bom_format == ObjGet(d, "bomFormat")
  IN IF ~Truthy(bom_format)
     THEN [raised |-> FALSE, ok |-> FALSE,
           messages |-> <<SMsg("Missing required field: bomFormat", -1, <<>>)>>]
     ELSE IF bom_format # JStr(s_CycloneDX)
     THEN [raised |-> FALSE, ok |-> FALSE,
           messages |-> <<SMsg("Expected bomFormat 'CycloneDX', got", -1, PyStr(bom_format))>>]
     ELSE [raised |-> FALSE, ok |-> TRUE, messages |-> <<>>]

\* p.get("name", "").startswith("cbom:"): AttributeError when p is no dict or
\* its name is no string
IsCbomProp(p) ==
  IF ~IsDict(p) THEN [raised |-> TRUE, v |-> FALSE]
  ELSE LET name == ObjGetDefault(p, "name", JStr(<<>>))
       IN IF name.t # "str" THEN [raised |-> TRUE, v |-> FALSE]
          ELSE [raised |-> FALSE, v |-> StartsWith(name.v, s_cbom_prefix)]

\* the filter keeping every property, whatever its name
CbomProps_NoFilter(properties) ==
  IF \E k \in 1..Len(properties) : IsCbomProp(properties[k]).raised
  THEN [raised |-> TRUE, v |-> <<>>]
  ELSE [raised |-> FALSE, v |-> properties]

\* [p for p in properties if p.get("name", "").startswith("cbom:")]
CbomProps(properties) ==
  IF \E k \in 1..Len(properties) : IsCbomProp(properties[k]).raised
  THEN [raised |-> TRUE, v |-> <<>>]
  ELSE [raised |-> FALSE, v |-> SelectSeq(properties, LAMBDA p : IsCbomProp(p).v)]

\* the errors of one cbom: property
PropErrors(i, prop) ==
  IF ~IsDict(prop) THEN <<SMsg("property must be an object", i, <<>>)>>
  ELSE (IF ObjGet(prop, "name") = Absent
        THEN <<SMsg("property missing 'name' field", i, <<>>)>> ELSE <<>>)
       \o (IF ObjGet(prop, "value") = Absent
           THEN <<SMsg("property missing 'value' field", i, <<>>)>> ELSE <<>>)

RECURSIVE PropsErrors(_, _, _)
PropsErrors(i, cbom_props, k) ==
  IF k > Len(cbom_props) THEN <<>>
  ELSE PropErrors(i, cbom_props[k]) \o PropsErrors(i, cbom_props, k + 1)

\* one iteration of `for idx, component in enumerate(components)`; i is idx
ComponentStep(acc, i, component) ==
  IF acc.raised THEN acc
  ELSE IF ~IsDict(component) THEN Raise(acc)
  ELSE
    LET warnings ==
          IF ObjGet(component, "crypto") # Absent
          THEN Append(acc.warnings,
                      SMsg("has .crypto field (should use .properties in 1.6)", i,
                           PyStr(ObjGetDefault(component, "name", JStr(s_unnamed)))))
          ELSE acc.warnings
        properties == ObjGetDefault(component, "properties", JList(<<>>))
    IN IF ~IsList(properties)
       THEN [acc EXCEPT !.warnings = warnings,
                        !.errors = Append(@, SMsg("properties must be an array", i, <<>>))]
       ELSE LET cbom_props == CbomProps(properties.v)
            IN IF cbom_props.raised THEN Raise(acc)
               ELSE [acc EXCEPT !.warnings = warnings,
                                !.errors = @ \o PropsErrors(i, cbom_props.v, 1)]

RECURSIVE ComponentLoop(_, _, _)
ComponentLoop(acc, components, k) ==
  IF k > Len(components) THEN acc
  ELSE ComponentLoop(ComponentStep(acc, k - 1, components[k]), components, k + 1)

\* validate_component_properties(components): components is the sequence of
\* array entries; returns (len(errors) == 0, errors + warnings)
validate_component_properties(components) ==
  LET acc == ComponentLoop([raised |-> FALSE, errors |-> <<>>, warnings |-> <<>>],
                           components, 1)
  IN IF acc.raised THEN [raised |-> TRUE, ok |-> FALSE, messages |-> <<>>]
     ELSE [raised |-> FALSE, ok |-> Len(acc.errors) = 0,
           messages |-> acc.errors \o acc.warnings]

\* validate_metadata(doc)
validate_metadata(d) ==
  LET metadata == ObjGetDefault(d, "metadata", JDict(<<>>))
  IN IF ~Truthy(metadata)
     THEN [raised |-> FALSE, ok |-> FALSE,
           messages |-> <<SMsg("Missing metadata section", -1, <<>>)>>]
     ELSE IF ~IsDict(metadata) THEN [raised |-> TRUE, ok |-> FALSE, messages |-> <<>>]
     ELSE
       LET tools == ObjGetDefault(metadata, "tools", JList(<<>>))
           errors ==
             (IF ~Truthy(tools)
              THEN <<SMsg("metadata.tools array is empty or missing", -1, <<>>)>>
              ELSE <<>>)
             \o (IF ObjGet(metadata, "timestamp") = Absent
                 THEN <<SMsg("metadata.timestamp is missing", -1, <<>>)>>
                 ELSE <<>>)
       IN [raised |-> FALSE, ok |-> Len(errors) = 0, messages |-> errors]

\* step 4 of validate_cbom_16: `if components: validate_component_properties(...)`;
\* iterating a truthy value that is no list raises
ValidateComponents(d) ==
  LET components == ObjGetDefault(d, "components", JList(<<>>))
  IN IF ~Truthy(components) THEN [raised |-> FALSE, ok |-> TRUE, messages |-> <<>>]
     ELSE IF ~IsList(components) THEN [raised |-> TRUE, ok |-> FALSE, messages |-> <<>>]
     ELSE validate_component_properties(components.v)

\* the four checks, each one skipped once an earlier one has failed
validate_cbom_16_ShortCircuit(d) ==
  IF ~IsDict(d) THEN [raised |-> TRUE, ok |-> FALSE, messages |-> <<>>]
  ELSE
    LET r1 == validate_bom_format(d)
        r2 == validate_spec_version(d)
        r3 == validate_metadata(d)
        r4 == ValidateComponents(d)
    IN IF ~r1.ok THEN r1
       ELSE IF ~r2.ok THEN r2
       ELSE IF r3.raised \/ ~r3.ok THEN r3
       ELSE r4

\* validate_cbom_16(doc): [raised, ok, messages]
validate_cbom_16(d) ==
  IF ~IsDict(d) THEN [raised |-> TRUE, ok |-> FALSE, messages |-> <<>>]
  ELSE
    LET r1 == validate_bom_format(d)
        r2 == validate_spec_version(d)
        r3 == validate_metadata(d)
        r4 == ValidateComponents(d)
    IN IF r3.raised \/ r4.raised THEN [raised |-> TRUE, ok |-> FALSE, messages |-> <<>>]
       ELSE [raised |-> FALSE,
             ok |-> r1.ok /\ r2.ok /\ r3.ok /\ r4.ok,
             messages |-> r1.messages \o r2.messages \o r3.messages \o r4.messages]

(* ------------------- inputs: CycloneDX documents ---------------------- *)

SDoc(b, sv, m, c) ==
  JObj([bomFormat |-> b, specVersion |-> sv, metadata |-> m, components |-> c])

Metadata(tools, ts) == JObj([tools |-> tools, timestamp |-> ts])

Component(n, cr, pr) == JObj([name |-> n, crypto |-> cr, properties |-> pr])

Prop(n, v) == JObj([name |-> n, value |-> v])

SomeTool == JDict(<< <<s_lib, JStr(s_lib)>> >>)
SomeCrypto == JDict(<< <<s_RSA, JInt(1)>> >>)

GoodMetadata == Metadata(JList(<<SomeTool>>), JStr(s_timestamp))

\* a conforming document with the given components value
GoodDoc(c) == SDoc(JStr(s_CycloneDX), JStr(s_1_6), GoodMetadata, c)

MetadataVals ==
  {Absent, JNull, Metadata(Absent, Absent), JStr(s_no)}
    \cup {Metadata(t, ts) : t \in {Absent, JList(<<>>), JList(<<SomeTool>>)},
                            ts \in {Absent, JNull, JStr(s_timestamp)}}

\* properties that are objects with a string name (or none)
PropObjects ==
  {Prop(n, v) : n \in {JStr(s_cbom_algorithm), JStr(s_other)}, v \in {Absent, JStr(s_RSA)}}

\* every shape of property entry
PropEntries ==
  PropObjects
    \cup {Prop(Absent, Absent), Prop(JStr(s_cbo), Absent), Prop(JStr(s_cbom_prefix), JNull),
          Prop(JInt(1), Absent), JInt(1)}

ShapeComponents ==
  {Component(n, cr, pr) :
     n \in {Absent, JStr(s_lib), JStr(s_Should)}, cr \in {Absent, SomeCrypto},
     pr \in {Absent, JNull, JStr(s_no), JList(<<>>),
             JList(<<Prop(JStr(s_cbom_algorithm), Absent)>>)}}
    \cup {JInt(1)}

\* every combination of the top-level fields, over a few components values
IsTopDoc(d) ==
  \E b \in {Absent, JStr(<<>>), JStr(s_CycloneDX), JStr(s_SPDX)},
     sv \in {Absent, JStr(s_1_6), JStr(s_1_5)},
     m \in MetadataVals,
     c \in {Absent, JList(<<>>), JStr(s_no),
            JList(<<Component(Absent, SomeCrypto, Absent)>>),
            JList(<<Component(Absent, Absent, JStr(s_no))>>)} :
     d = SDoc(b, sv, m, c)

\* conforming top level, components of every shape
IsComponentsDoc(d) ==
  \E cs \in SeqsUpTo(ShapeComponents, MaxComponents) : d = GoodDoc(JList(cs))

\* conforming top level, components that differ in their property objects
IsPropsDoc(d) ==
  \E cs \in SeqsUpTo({Component(Absent, Absent, JList(ps)) :
                        ps \in SeqsUpTo(PropObjects \ {Prop(JStr(s_other), JStr(s_RSA))},
                                        MaxProps)},
                     MaxComponents) :
     d = GoodDoc(JList(cs))

\* conforming top level, one component, property entries of every shape
IsPropShapesDoc(d) ==
  \E ps \in SeqsUpTo(PropEntries, MaxProps), cr \in {Absent, SomeCrypto} :
     d = GoodDoc(JList(<<Component(Absent, cr, JList(ps))>>))

IsSchemaDoc(d) ==
  \/ IsTopDoc(d)
  \/ IsComponentsDoc(d)
  \/ IsPropsDoc(d)
  \/ IsPropShapesDoc(d)
  \/ d \in NonObjectDocs

(* ------------------ specification: validate_cbom_16 ------------------- *)

InitSchema ==
  /\ IsSchemaDoc(doc)
  /\ result = NoResult
  /\ pc = "call"
  /\ MainIdle

CallValidateCbom16 ==
  /\ pc = "call"
  /\ result' = validate_cbom_16(doc)
  /\ pc' = "returned"
  /\ UNCHANGED <<tool, strict, nfiles, idx, all_ok, doc, out, exit_code>>

NextSchema == CallValidateCbom16

SpecSchema == InitSchema /\ [][NextSchema]_vars

(* ------------------- claims about validate_cbom_16 -------------------- *)

\* the check a message comes from, by its text
CheckRank(m) ==
  CASE m.text \in {"Missing required field: bomFormat",
                   "Expected bomFormat 'CycloneDX', got"} -> 1
    [] m.text \in {"Missing required field: specVersion",
                   "Expected specVersion '1.6', got"} -> 2
    [] m.text \in {"Missing metadata section", "metadata.tools array is empty or missing",
                   "metadata.timestamp is missing"} -> 3
    [] OTHER -> 4

MetadataPasses ==
  /\ doc.v.metadata.t = "obj"
  /\ Truthy(doc.v.metadata.v.tools)
  /\ doc.v.metadata.v.timestamp # Absent

\* the name of a property object starts with "cbom:"
HasCbomName(p) ==
  /\ p.v.name.t = "str"
  /\ Len(p.v.name.v) >= 5
  /\ SubSeq(p.v.name.v, 1, 5) = <<"c","b","o","m",":">>

ComponentPasses(c) ==
  \/ c.v.properties = Absent
  \/ /\ IsList(c.v.properties)
     /\ \A k \in 1..Len(c.v.properties.v) :
          HasCbomName(c.v.properties.v[k]) => c.v.properties.v[k].v.value # Absent

ComponentsPass ==
  \/ ~Truthy(doc.v.components)
  \/ \A i \in 1..Len(doc.v.components.v) : ComponentPasses(doc.v.components.v[i])

\* C8: validate_cbom_16 returns ok = true iff the bomFormat, specVersion and
\* metadata checks and (for non-empty components) the component check all pass;
\* its messages are the four checks' messages in that order; a document lacking
\* bomFormat and specVersion gets both missing-field errors; an empty components
\* array adds no message.
C8_FourChecks ==
  Returned =>
    /\ result.ok <=> (/\ doc.v.bomFormat = JStr(s_CycloneDX)
                      /\ doc.v.specVersion = JStr(s_1_6)
                      /\ MetadataPasses
                      /\ ComponentsPass)
    /\ \A i, j \in 1..Len(result.messages) :
         i < j => CheckRank(result.messages[i]) <= CheckRank(result.messages[j])
    /\ result.messages =
         validate_bom_format(doc).messages \o validate_spec_version(doc).messages
           \o validate_metadata(doc).messages \o ValidateComponents(doc).messages
    /\ (doc.v.bomFormat = Absent /\ doc.v.specVersion = Absent) =>
         /\ Len(result.messages) >= 2
         /\ result.messages[1].text = "Missing required field: bomFormat"
         /\ result.messages[2].text = "Missing required field: specVersion"
    /\ doc.v.components = JList(<<>>) =>
         \A i \in 1..Len(result.messages) : CheckRank(result.messages[i]) < 4

\* the conforming document with components [] passes without a message
C8_Witness ==
  /\ Returned
  /\ doc = GoodDoc(JList(<<>>))
  /\ result.ok
  /\ result.messages = <<>>

\* components is an array of objects whose properties are arrays of objects
PropertiesWellFormed ==
  /\ IsDict(doc)
  /\ IsList(doc.v.components)
  /\ \A i \in 1..Len(doc.v.components.v) :
       /\ IsDict(doc.v.components.v[i])
       /\ IsList(doc.v.components.v[i].v.properties)
       /\ \A k \in 1..Len(doc.v.components.v[i].v.properties.v) :
            IsDict(doc.v.components.v[i].v.properties.v[k])

\* the error messages that name component index i
ErrorsNaming(i) ==
  {j \in 1..Len(result.messages) :
     /\ result.messages[j].idx = i
     /\ result.messages[j].text # "has .crypto field (should use .properties in 1.6)"}

\* C9: each cbom: property lacking value produces exactly one error, naming the
\* index of its component, and makes the check fail; a property whose name does
\* not start with "cbom:" produces no message, with or without a value key.
C9_CbomValueErrors ==
  (Returned /\ PropertiesWellFormed) =>
    \A i \in 1..Len(doc.v.components.v) :
      LET ps == doc.v.components.v[i].v.properties.v
          lacking == {k \in 1..Len(ps) : HasCbomName(ps[k]) /\ ps[k].v.value = Absent}
      IN /\ Cardinality(ErrorsNaming(i - 1)) = Cardinality(lacking)
         /\ \A j \in ErrorsNaming(i - 1) :
              result.messages[j].text = "property missing 'value' field"
         /\ lacking # {} => ~result.ok

\* component 0 holds a non-cbom property without value, component 1 a cbom one
C9_Witness ==
  /\ Returned
  /\ doc = GoodDoc(JList(<<
             Component(Absent, Absent, JList(<<Prop(JStr(s_other), Absent)>>)),
             Component(Absent, Absent, JList(<<Prop(JStr(s_cbom_algorithm), Absent)>>))>>))
  /\ ~result.ok
  /\ result.messages = <<SMsg("property missing 'value' field", 1, <<>>)>>

(* ----------------------------- main loops ----------------------------- *)

\* str.lower(), one character
LowerChar(c) ==
  CASE c = "A" -> "a" [] c = "B" -> "b" [] c = "C" -> "c" [] c = "D" -> "d"
    [] c = "E" -> "e" [] c = "F" -> "f" [] c = "G" -> "g" [] c = "H" -> "h"
    [] c = "I" -> "i" [] c = "J" -> "j" [] c = "K" -> "k" [] c = "L" -> "l"
    [] c = "M" -> "m" [] c = "N" -> "n" [] c = "O" -> "o" [] c = "P" -> "p"
    [] c = "Q" -> "q" [] c = "R" -> "r" [] c = "S" -> "s" [] c = "T" -> "t"
    [] c = "U" -> "u" [] c = "V" -> "v" [] c = "W" -> "w" [] c = "X" -> "x"
    [] c = "Y" -> "y" [] c = "Z" -> "z" [] OTHER -> c

\* str.lower()
Lower(s) == [i \in 1..Len(s) |-> LowerChar(s[i])]

\* `"warning" in msg.lower() or "should" in msg.lower()`: of the fixed texts only
\* the .crypto one holds either word; the interpolated string may hold one too
IsWarningText(m) ==
  \/ m.text = "has .crypto field (should use .properties in 1.6)"
  \/ IsSubstring(s_warning, Lower(m.detail))
  \/ IsSubstring(s_should, Lower(m.detail))

\* the prefix printed before a message under [FAIL]
Prefix(m, strict_flag) ==
  IF IsWarningText(m) THEN (IF ~strict_flag THEN "[WARN]" ELSE "[ERROR]") ELSE "[ERROR]"

\* what is printed for one file
Report(verdict, invalid_json, lines) ==
  [verdict |-> verdict, invalid_json |-> invalid_json, lines |-> lines]

\* documents given to the consistency checker's main loop: passing, failing,
\* and ones compare_summary raises on
CbomMainDocs ==
  {Doc(JList(<<>>), EmptySummary),
   Doc(JList(<<Finding(JStr(s_high), Absent, Absent)>>), Summary(JInt(1), Absent, Absent, Absent)),
   Doc(JStr(s_no), Absent),
   Doc(JList(<<JInt(1)>>), Absent),
   Doc(JList(<<>>), Summary(JNull, Absent, Absent, Absent)),
   JList(<<>>)}

\* a conforming document whose only message is the legacy .crypto warning
WarnOnlyDocs ==
  {GoodDoc(JList(<<Component(Absent, SomeCrypto, Absent)>>)),
   GoodDoc(JList(<<Component(Absent, SomeCrypto, JList(<<>>))>>))}

SchemaMainDocs ==
  WarnOnlyDocs
    \cup {GoodDoc(JList(<<>>)),
          SDoc(Absent, Absent, Absent, Absent),
          SDoc(JStr(s_Should), JStr(s_1_6), GoodMetadata, Absent),
          GoodDoc(JList(<<Component(JStr(s_lib), SomeCrypto, JNull)>>)),
          GoodDoc(JList(<<JInt(1)>>)),
          JList(<<>>)}

InitMain ==
  /\ tool \in {"validate_cbom", "validate_cdx16_schema"}
  /\ strict \in BOOLEAN
  /\ tool = "validate_cbom" => strict = FALSE
  /\ nfiles \in 1..MaxFiles
  /\ idx = 1
  /\ all_ok = TRUE
  /\ doc = Absent
  /\ result = NoResult
  /\ out = <<>>
  /\ pc = "loop"
  /\ exit_code = -1

\* validate_cbom.main: load_json raises for the file at idx
CbomLoadFails ==
  /\ tool = "validate_cbom" /\ pc = "loop" /\ idx <= nfiles
  /\ out' = Append(out, Report("FAIL", TRUE, <<>>))
  /\ all_ok' = FALSE
  /\ idx' = idx + 1
  /\ UNCHANGED <<tool, strict, nfiles, doc, result, pc, exit_code>>

\* validate_cbom.main: the file at idx parses; compare_summary either returns or
\* raises, and an exception leaves main uncaught (exit status 1)
CbomCheckFile ==
  /\ tool = "validate_cbom" /\ pc = "loop" /\ idx <= nfiles
  /\ \E d \in CbomMainDocs :
       LET r == compare_summary(d)
       IN /\ doc' = d
          /\ result' = r
          /\ IF r.raised
             THEN /\ pc' = "crashed"
                  /\ exit_code' = 1
                  /\ UNCHANGED <<idx, all_ok, out>>
             ELSE /\ out' = Append(out, IF r.ok THEN Report("OK", FALSE, <<>>)
                                        ELSE Report("FAIL", FALSE, r.errors))
                  /\ all_ok' = (all_ok /\ r.ok)
                  /\ idx' = idx + 1
                  /\ UNCHANGED <<pc, exit_code>>
  /\ UNCHANGED <<tool, strict, nfiles>>

\* validate_cbom.main: `return 0 if all_ok else 1`
CbomReturn ==
  /\ tool = "validate_cbom" /\ pc = "loop" /\ idx > nfiles
  /\ pc' = "done"
  /\ exit_code' = (IF all_ok THEN 0 ELSE 1)
  /\ UNCHANGED <<tool, strict, nfiles, idx, all_ok, doc, result, out>>

\* validate_cdx16_schema.main: load_json raises for the file at idx
SchemaLoadFails ==
  /\ tool = "validate_cdx16_schema" /\ pc = "loop" /\ idx <= nfiles
  /\ out' = Append(out, Report("FAIL", TRUE, <<>>))
  /\ all_ok' = FALSE
  /\ idx' = idx + 1
  /\ UNCHANGED <<tool, strict, nfiles, doc, result, pc, exit_code>>

\* validate_cdx16_schema.main: the file at idx parses; --strict is read only in
\* the branch taken when validate_cbom_16 returned ok = false
SchemaCheckFile ==
  /\ tool = "validate_cdx16_schema" /\ pc = "loop" /\ idx <= nfiles
  /\ \E d \in SchemaMainDocs :
       LET r == validate_cbom_16(d)
       IN /\ doc' = d
          /\ result' = r
          /\ IF r.raised
             THEN /\ pc' = "crashed"
                  /\ exit_code' = 1
                  /\ UNCHANGED <<idx, all_ok, out>>
             ELSE /\ out' = Append(out,
                              IF r.ok THEN Report("OK", FALSE, <<>>)
                              ELSE Report("FAIL", FALSE,
                                          [k \in 1..Len(r.messages) |->
                                             <<Prefix(r.messages[k], strict), r.messages[k]>>]))
                  /\ all_ok' = (all_ok /\ r.ok)
                  /\ idx' = idx + 1
                  /\ UNCHANGED <<pc, exit_code>>
  /\ UNCHANGED <<tool, strict, nfiles>>

\* validate_cdx16_schema.main: `return 0 if all_ok else 1`
SchemaReturn ==
  /\ tool = "validate_cdx16_schema" /\ pc = "loop" /\ idx > nfiles
  /\ pc' = "done"
  /\ exit_code' = (IF all_ok THEN 0 ELSE 1)
  /\ UNCHANGED <<tool, strict, nfiles, idx, all_ok, doc, result, out>>

Next ==
  \/ CbomLoadFails
  \/ CbomCheckFile
  \/ CbomReturn
  \/ SchemaLoadFails
  \/ SchemaCheckFile
  \/ SchemaReturn

Init == InitMain

Spec == Init /\ [][Next]_vars

(* ---------------------- claims about the main loops ------------------- *)

\* C5: no content of a successfully parsed document puts the consistency
\* checker's run into an uncaught exception that aborts the remaining files.
C5_NoUncaughtException ==
  (tool = "validate_cbom" /\ IsDict(doc)) => pc # "crashed"

SomeFileFailed == \E i \in 1..Len(out) : out[i].verdict = "FAIL"

\* C6: files are handled one at a time in order; a file that fails to parse is
\* reported [FAIL] and the run goes on with every later file; the flag, once
\* failed, stays failed; when the run ends every file has been handled and the
\* exit code is 1 iff some file failed its check or failed to parse.
C6_BatchVerdict ==
  /\ pc = "loop" => Len(out) = idx - 1
  /\ pc # "crashed" => (all_ok <=> ~SomeFileFailed)
  /\ \A i \in 1..Len(out) : out[i].invalid_json => out[i].verdict = "FAIL"
  /\ pc = "done" =>
       /\ Len(out) = nfiles
       /\ exit_code \in {0, 1}
       /\ exit_code = 1 <=> SomeFileFailed
  /\ (pc \in {"done", "crashed"} /\ \E i \in 1..Len(out) : out[i].invalid_json) =>
       Len(out) = nfiles

\* C7: a conforming document whose only message is a warning passes with exit
\* code 0 without --strict, and fails with exit code 1 with --strict.
C7_StrictPromotesWarnings ==
  (tool = "validate_cdx16_schema" /\ pc = "done" /\ nfiles = 1 /\ doc \in WarnOnlyDocs) =>
    /\ ~strict => (out[1].verdict = "OK" /\ exit_code = 0)
    /\ strict => (out[1].verdict = "FAIL" /\ exit_code = 1)

====
